---- MODULE Spec2Model ----
(***************************************************************************)
(* State-machine model of django-chunked-upload: the upload session        *)
(* records (chunked_upload/models.py), the storage objects behind them,    *)
(* and the two request handlers of chunked_upload/views.py                 *)
(* (ChunkedUploadView.post and ChunkedUploadCompleteView.post).            *)
(* One action is one whole request; requests do not overlap in Spec.       *)
(* Hooked adds a validate hook that can refuse, Faults storage failures;   *)
(* Overlap and Stepwise split a request into its reads and writes of       *)
(* shared state; Resync follows one client to the end of its upload.       *)
(* A handler is an operator from the request and the current state to its  *)
(* outcome: the rows, the storage, the hook count and the HTTP response.   *)
(***************************************************************************)
EXTENDS Integers, Sequences, FiniteSets, TLC

\* ------------------------------------------------------------------ bounds
MaxObjects == 1     \* storage objects (and so sessions) ever created
MaxLen == 2         \* bytes a backing object, or one chunk, may hold
MaxTime == 1        \* last instant of the clock
MaxInFlight == 2    \* request handlers that may run at once (Overlap)
MaxCalls == 2       \* on_completion invocations followed (Overlap)
MaxLost == 1        \* responses that may fail to reach the client (Resync)

\* --------------------------------------------------------- program constants
EXPIRATION_DELTA == 1           \* settings.EXPIRATION_DELTA, in clock ticks
MAX_BYTES == 1                  \* settings.MAX_BYTES when it is set
None == -1                      \* Python None for integer-valued fields
UPLOADING == "Uploading"
COMPLETE == "Complete"

Bytes == {0, 1}
Users == {"u1", "u2"}           \* authenticated principals
Anonymous == "anonymous"        \* request.user exists, is not authenticated
NoUser == "nouser"              \* the request has no `user` attribute
NoOwner == "null"               \* ChunkedUpload.user is NULL
Principals == Users \cup {Anonymous, NoUser}

NoId == 0                       \* no upload_id in the POST data
Payloads == UNION {[1..n -> Bytes] : n \in 0..MaxLen}
\* request.FILES.get('file'): <<>> is no file, <<d>> a file holding the bytes d
Chunks == {<<>>} \cup {<<d>> : d \in Payloads}
\* A Content-Range header that matches the pattern, as <<start, end, total>>;
\* <<>> is a missing header or one the pattern does not match.
Ranges == {<<>>} \cup ((0..MaxLen) \X (0..(MaxLen - 1)) \X (1..MaxLen))
Digests == 0..2
Md5Params == {None} \cup Digests    \* request.POST.get('md5')

VARIABLES
    storage,              \* storage[ref]: the bytes of backing object ref
    records,              \* records[upload_id]: the persisted ChunkedUpload row
    now,                  \* timezone.now()
    max_bytes,            \* ChunkedUploadView.max_bytes (None: no limit)
    fail_if_no_header,    \* ChunkedUploadView.fail_if_no_header
    do_md5_check,         \* ChunkedUploadCompleteView.do_md5_check
    use_azure,            \* settings.USE_AZURE_APPEND_BLOB
    on_completion_calls,  \* invocations of on_completion so far
    delivered,            \* history: delivered[id], the accepted chunks' bytes, in order
    handlers,             \* handlers[p]: the request handler p is in the middle of
    client                \* the uploading client of Resync: its file and what it knows

vars == <<storage, records, now, max_bytes, fail_if_no_header, do_md5_check,
          use_azure, on_completion_calls, delivered, handlers, client>>

config == <<max_bytes, fail_if_no_header, do_md5_check, use_azure>>

\* ------------------------------------------------------------------ models.py
generate_upload_id(st) == Len(st) + 1

expires_on(cu) == cu.created_on + EXPIRATION_DELTA

\* a slip that would leave the boundary instant unexpired
expired_AfterBoundary(cu) == expires_on(cu) < now

expired(cu) == expires_on(cu) <= now

RECURSIVE MD5(_)
\* hashlib.md5 over the whole byte stream: a digest of fixed width, so distinct
\* contents may collide.
MD5(bs) == IF bs = <<>> THEN 1
           ELSE (2 * MD5(SubSeq(bs, 1, Len(bs) - 1)) + bs[Len(bs)] + 1) % 3

md5(cu, st) == MD5(st[cu.file])

\* a slip that would assign the chunk size to offset instead of adding it
append_chunk_OffsetAssigned(cu, st, data, chunk_size) ==
    [cu |-> [cu EXCEPT !.offset = chunk_size],
     storage |-> [st EXCEPT ![cu.file] = st[cu.file] \o data]]

\* a slip that would start the object afresh on every append, not only the first
append_chunk_AlwaysRecreates(cu, st, data, chunk_size) ==
    [cu |-> [cu EXCEPT !.offset = cu.offset + chunk_size],
     storage |-> [st EXCEPT ![cu.file] = data]]

\* a slip that would write the chunk at the instance's offset, not at the end
append_chunk_WritesAtOffset(cu, st, data, chunk_size) ==
    [cu |-> [cu EXCEPT !.offset = cu.offset + chunk_size],
     storage |-> [st EXCEPT ![cu.file] = SubSeq(st[cu.file], 1, cu.offset) \o data]]

\* The two branches of append_chunk, chosen by settings.USE_AZURE_APPEND_BLOB:
\* the append-blob branch deletes and recreates the blob when offset is 0 and
\* then appends a block; the local branch opens the file in 'ab' and writes.
append_chunk_under(azure, cu, st, data, chunk_size) ==
    LET base == IF azure /\ cu.offset = 0 THEN <<>> ELSE st[cu.file]
    IN  [cu |-> [cu EXCEPT !.offset = cu.offset + chunk_size],
         storage |-> [st EXCEPT ![cu.file] = base \o data]]

\* AbstractChunkedUpload.append_chunk(chunk, chunk_size, save=False): the new
\* in-memory instance and the new storage.
append_chunk(cu, st, data, chunk_size) ==
    append_chunk_under(use_azure, cu, st, data, chunk_size)

\* ------------------------------------------------------------------- views.py
is_authenticated(user) == user \in Users

has_user(user) == user # NoUser         \* hasattr(request, 'user')

get_queryset(user) ==
    IF has_user(user) /\ is_authenticated(user)
    THEN {id \in DOMAIN records : records[id].user = user}
    ELSE DOMAIN records

\* TRUE when check_permissions does not raise
check_permissions(user) == ~(has_user(user) /\ ~is_authenticated(user))

get_extra_attrs(user) ==
    IF has_user(user) /\ is_authenticated(user) THEN user ELSE NoOwner

\* self.model(**attrs) followed by file.save('tmp', ContentFile(b''), save=False)
create_chunked_upload(user, st) ==
    [cu |-> [file |-> generate_upload_id(st), offset |-> 0, created_on |-> None,
             status |-> UPLOADING, completed_on |-> None, user |-> user],
     storage |-> Append(st, <<>>)]

\* _save -> Model.save(): insert (created_on is auto_now_add) or update the row.
save(recs, cu) ==
    IF cu.file \in DOMAIN recs
    THEN [recs EXCEPT ![cu.file] = cu]
    ELSE recs @@ (cu.file :> [cu EXCEPT !.created_on = now])

\* a slip that would accept a re-sent earlier range
offsets_match_AtMost(cu, start) == cu.offset >= start

\* a slip that would test the status before the expiry
is_valid_chunked_upload_StatusFirst(cu) ==
    IF cu.status = COMPLETE THEN "AlreadyComplete"
    ELSE IF expired(cu) THEN "Expired"
    ELSE "OK"

\* a slip that would drop the check for COMPLETE
is_valid_chunked_upload_ExpiredOnly(cu) ==
    IF expired(cu) THEN "Expired" ELSE "OK"

\* ChunkedUploadView.is_valid_chunked_upload: the error it raises, or "OK"
is_valid_chunked_upload(cu) ==
    IF expired(cu) THEN "Expired"
    ELSE IF cu.status = COMPLETE THEN "AlreadyComplete"
    ELSE "OK"

\* ChunkedUploadCompleteView.is_valid_chunked_upload: the error it raises, or "OK"
complete_is_valid_chunked_upload(cu) ==
    IF cu.status = COMPLETE THEN "AlreadyComplete" ELSE "OK"

\* a slip that would skip the comparison
md5_check_Skipped(cu, st, md5param) == TRUE

\* TRUE when md5_check does not raise
md5_check(cu, st, md5param) == md5(cu, st) = md5param

\* a slip that would make the fallback's end the size, not the last index
content_range_of_EndIsSize(header, data) ==
    IF header # <<>>
    THEN [start |-> header[1], end |-> header[2], total |-> header[3]]
    ELSE [start |-> 0, end |-> Len(data), total |-> Len(data)]

\* The Content-Range header as parsed, or the whole-size fallback.
content_range_of(header, data) ==
    IF header # <<>>
    THEN [start |-> header[1], end |-> header[2], total |-> header[3]]
    ELSE [start |-> 0, end |-> Len(data) - 1, total |-> Len(data)]

exceeds_max_bytes(total) == max_bytes # None /\ total > max_bytes

offsets_match(cu, start) == cu.offset = start

sizes_match(data, chunk_size) == Len(data) = chunk_size

StatusOf(detail) ==
    CASE detail = "OK" -> 200
      [] detail = "Forbidden" -> 403
      [] detail = "NotFound" -> 404
      [] detail = "Expired" -> 410
      [] OTHER -> 400

Response(op, detail, offset, upload_id) ==
    [op |-> op, status |-> StatusOf(detail), detail |-> detail, offset |-> offset,
     upload_id |-> upload_id]

\* A ChunkedUploadError caught by post(): nothing is saved; st is the storage
\* as the request leaves it.
Error(op, st, detail, offset) ==
    [records |-> records, storage |-> st, calls |-> on_completion_calls,
     resp |-> Response(op, detail, offset, None)]

\* ChunkedUploadBaseView.validate: TRUE when it does not raise. The hook of the
\* base view is empty and never raises; a request that carries a `veto` field
\* is one served by a subclass whose validate raises when the field is TRUE.
validate(req) == "veto" \notin DOMAIN req \/ ~req.veto

\* ChunkedUploadView._post up to the size check (and check_permissions before
\* it): the error raised, or "OK" with the instance loaded or created, the
\* storage as these steps leave it, and the chunk about to be appended.
ChunkedUploadView_checks(req) ==
    LET Raise(st, detail, offset) ==
            [detail |-> detail, offset |-> offset, storage |-> st]
    IN
    IF ~check_permissions(req.user)
    THEN Raise(storage, "Forbidden", None)
    ELSE IF req.chunk = <<>>
    THEN Raise(storage, "MissingChunk", None)
    ELSE IF ~validate(req)
    THEN Raise(storage, "ValidationError", None)
    ELSE IF req.upload_id # NoId /\ req.upload_id \notin get_queryset(req.user)
    THEN Raise(storage, "NotFound", None)
    ELSE IF req.upload_id # NoId
            /\ is_valid_chunked_upload(records[req.upload_id]) # "OK"
    THEN Raise(storage, is_valid_chunked_upload(records[req.upload_id]), None)
    ELSE
    LET data == req.chunk[1]
        new == create_chunked_upload(get_extra_attrs(req.user), storage)
        chunked_upload == IF req.upload_id # NoId THEN records[req.upload_id]
                          ELSE new.cu
        st == IF req.upload_id # NoId THEN storage ELSE new.storage
        range == content_range_of(req.content_range, data)
        chunk_size == range.end - range.start + 1
    IN  IF req.content_range = <<>> /\ fail_if_no_header
        THEN Raise(st, "MissingRangeHeader", None)
        ELSE IF exceeds_max_bytes(range.total)
        THEN Raise(st, "SizeLimitExceeded", None)
        ELSE IF ~offsets_match(chunked_upload, range.start)
        THEN Raise(st, "OffsetMismatch", chunked_upload.offset)
        ELSE IF ~sizes_match(data, chunk_size)
        THEN Raise(st, "SizeMismatch", None)
        ELSE [detail |-> "OK", offset |-> None, storage |-> st,
              cu |-> chunked_upload, data |-> data, chunk_size |-> chunk_size]

\* ChunkedUploadView: post() and _post(). The outcome of request req in the
\* current state: the rows, the storage, the hook count and the response.
ChunkedUploadView_post(req) ==
    LET checked == ChunkedUploadView_checks(req)
    IN  IF checked.detail # "OK"
        THEN Error("append", checked.storage, checked.detail, checked.offset)
        ELSE
        LET appended == append_chunk(checked.cu, checked.storage, checked.data,
                                     checked.chunk_size)
        IN  [records |-> save(records, appended.cu),
             storage |-> appended.storage,
             calls |-> on_completion_calls,
             resp |-> Response("append", "OK", appended.cu.offset,
                               appended.cu.file)]

\* ChunkedUploadCompleteView._post up to md5_check (and check_permissions
\* before it): the error raised, or "OK" with the instance loaded.
ChunkedUploadCompleteView_checks(req) ==
    IF ~check_permissions(req.user)
    THEN [detail |-> "Forbidden"]
    ELSE IF (do_md5_check /\ (req.upload_id = NoId \/ req.md5 = None))
            \/ (~do_md5_check /\ req.upload_id = NoId)
    THEN [detail |-> "MissingParameters"]
    ELSE IF req.upload_id \notin get_queryset(req.user)
    THEN [detail |-> "NotFound"]
    ELSE IF ~validate(req)
    THEN [detail |-> "ValidationError"]
    ELSE IF complete_is_valid_chunked_upload(records[req.upload_id]) # "OK"
    THEN [detail |-> complete_is_valid_chunked_upload(records[req.upload_id])]
    ELSE IF do_md5_check /\ ~md5_check(records[req.upload_id], storage, req.md5)
    THEN [detail |-> "ChecksumMismatch"]
    ELSE [detail |-> "OK", cu |-> records[req.upload_id]]

\* a slip that would leave completed_on unset
mark_complete_StatusOnly(cu) == [cu EXCEPT !.status = COMPLETE]

\* chunked_upload.status = COMPLETE; chunked_upload.completed_on = timezone.now()
mark_complete(cu) == [cu EXCEPT !.status = COMPLETE, !.completed_on = now]

\* ChunkedUploadCompleteView: post() and _post()
ChunkedUploadCompleteView_post(req) ==
    LET checked == ChunkedUploadCompleteView_checks(req)
    IN  IF checked.detail # "OK"
        THEN Error("complete", storage, checked.detail, None)
        ELSE [records |-> save(records, mark_complete(checked.cu)),
              storage |-> storage,
              calls |-> on_completion_calls + 1,
              resp |-> Response("complete", "OK", None, None)]

\* ------------------------------------------------------------------- requests
UploadIds == {NoId} \cup (1..MaxObjects)

ChunkRequests ==
    [user : Principals, upload_id : UploadIds, chunk : Chunks,
     content_range : Ranges]

CompleteRequests == [user : Principals, upload_id : UploadIds, md5 : Md5Params]

\* The request handlers (worker threads or processes) and what one holds while
\* it runs: its position pc and its in-memory model instance cu, with the
\* chunk it is appending.
Handlers == 1..MaxInFlight

NoRow == [file |-> NoId, offset |-> 0, created_on |-> None, status |-> UPLOADING,
          completed_on |-> None, user |-> NoOwner]

Idle == [pc |-> "idle", cu |-> NoRow, data |-> <<>>, chunk_size |-> 0]

\* The bounds of the model: a request whose outcome leaves them is not taken.
WithinBounds(out) ==
    /\ Len(out.storage) <= MaxObjects
    /\ \A ref \in 1..Len(out.storage) : Len(out.storage[ref]) <= MaxLen

Apply(out) ==
    /\ WithinBounds(out)
    /\ records' = out.records
    /\ storage' = out.storage
    /\ on_completion_calls' = out.calls
    /\ UNCHANGED <<now, config, handlers>>

\* ------------------------------------------------------------------- actions
\* The server as it starts: no rows, no objects, the views as configured.
Start ==
    /\ storage = <<>>
    /\ records = <<>>
    /\ now = 0
    /\ max_bytes \in {None, MAX_BYTES}
    /\ fail_if_no_header \in BOOLEAN
    /\ do_md5_check \in BOOLEAN
    /\ use_azure \in BOOLEAN
    /\ on_completion_calls = 0
    /\ delivered = <<>>
    /\ handlers = [p \in Handlers |-> Idle]

\* No client is followed outside Resync.
NoClient == [file |-> <<>>, upload_id |-> NoId, offset |-> 0, lost |-> 0]

Init == Start /\ client = NoClient

\* One whole append request.
Post(req) ==
    LET out == ChunkedUploadView_post(req)
    IN  /\ Apply(out)
        /\ delivered' =
             IF out.resp.detail # "OK" THEN delivered
             ELSE IF out.resp.upload_id \in DOMAIN delivered
             THEN [delivered EXCEPT ![out.resp.upload_id] = @ \o req.chunk[1]]
             ELSE delivered @@ (out.resp.upload_id :> req.chunk[1])

PostChunk == \E req \in ChunkRequests : Post(req) /\ UNCHANGED client

\* One whole completion request.
Complete(req) ==
    /\ Apply(ChunkedUploadCompleteView_post(req))
    /\ UNCHANGED delivered

PostComplete == \E req \in CompleteRequests : Complete(req) /\ UNCHANGED client

Tick ==
    /\ now < MaxTime
    /\ now' = now + 1
    /\ UNCHANGED <<storage, records, config, on_completion_calls, delivered,
                   handlers, client>>

Next == PostChunk \/ PostComplete \/ Tick

Spec == Init /\ [][Next]_vars

\* --------------------------------------------------------- an overriding hook
\* Hooked serves one authenticated user through views whose validate hook can
\* refuse a request: each request says whether the hook raises for it.
HookedChunkRequests ==
    [user : {"u1"}, upload_id : UploadIds, chunk : Chunks, content_range : Ranges,
     veto : BOOLEAN]

HookedCompleteRequests ==
    [user : {"u1"}, upload_id : UploadIds, md5 : Md5Params, veto : BOOLEAN]

HookedPostChunk ==
    \E req \in HookedChunkRequests : Post(req) /\ UNCHANGED client

HookedPostComplete ==
    \E req \in HookedCompleteRequests : Complete(req) /\ UNCHANGED client

HookedNext == HookedPostChunk \/ HookedPostComplete \/ Tick

Hooked == Init /\ [][HookedNext]_vars

\* ------------------------------------------------------ overlapping requests
\* Overlap runs up to MaxInFlight handlers at once. A handler's steps are the
\* points where _post reads or writes shared state: the lookup with the checks
\* on the instance it loaded, the write to the backing object, and
\* Model.save(), which writes every field of the in-memory instance.
\* (delivered is the history of Spec; Overlap leaves it alone.)
\* Overlap's requests all come from one authenticated user, with no size limit
\* and no header requirement configured, and with the checksum test on.
OverlapChunkRequests ==
    [user : {"u1"}, upload_id : UploadIds, chunk : Chunks, content_range : Ranges]

OverlapCompleteRequests ==
    [user : {"u1"}, upload_id : UploadIds, md5 : Md5Params]

OverlapInit ==
    /\ Init
    /\ max_bytes = None
    /\ ~fail_if_no_header
    /\ do_md5_check

\* Handler p takes append request req up to the call of append_chunk.
CheckAppend(p, req) ==
    /\ handlers[p].pc = "idle"
    /\ LET checked == ChunkedUploadView_checks(req)
       IN  /\ Len(checked.storage) <= MaxObjects
           /\ storage' = checked.storage
           /\ handlers' =
                IF checked.detail # "OK" THEN handlers
                ELSE [handlers EXCEPT ![p] =
                         [pc |-> "append", cu |-> checked.cu,
                          data |-> checked.data,
                          chunk_size |-> checked.chunk_size]]
    /\ UNCHANGED <<records, now, config, on_completion_calls, delivered,
                   client>>

AppendChecks(p) == \E req \in OverlapChunkRequests : CheckAppend(p, req)

AppendChunk(p) ==
    /\ handlers[p].pc = "append"
    /\ LET h == handlers[p]
           appended == append_chunk(h.cu, storage, h.data, h.chunk_size)
       IN  /\ Len(appended.storage[h.cu.file]) <= MaxLen
           /\ storage' = appended.storage
           /\ handlers' = [handlers EXCEPT ![p] =
                              [Idle EXCEPT !.pc = "save", !.cu = appended.cu,
                                           !.chunk_size = h.chunk_size]]
    /\ UNCHANGED <<records, now, config, on_completion_calls, delivered,
                   client>>

AppendSave(p) ==
    /\ handlers[p].pc = "save"
    /\ records' = save(records, handlers[p].cu)
    /\ handlers' = [handlers EXCEPT ![p] = Idle]
    /\ UNCHANGED <<storage, now, config, on_completion_calls, delivered,
                   client>>

\* Handler p takes completion request req up to the change of status.
CheckComplete(p, req) ==
    /\ handlers[p].pc = "idle"
    /\ on_completion_calls
         + Cardinality({q \in Handlers : handlers[q].pc \in {"complete", "hook"}})
       < MaxCalls
    /\ LET checked == ChunkedUploadCompleteView_checks(req)
       IN  handlers' =
               IF checked.detail # "OK" THEN handlers
               ELSE [handlers EXCEPT ![p] =
                        [Idle EXCEPT !.pc = "complete", !.cu = checked.cu]]
    /\ UNCHANGED <<storage, records, now, config, on_completion_calls, delivered,
                   client>>

CompleteChecks(p) == \E req \in OverlapCompleteRequests : CheckComplete(p, req)

CompleteSave(p) ==
    /\ handlers[p].pc = "complete"
    /\ LET chunked_upload == mark_complete(handlers[p].cu)
       IN  /\ records' = save(records, chunked_upload)
           /\ handlers' = [handlers EXCEPT ![p] =
                              [@ EXCEPT !.pc = "hook", !.cu = chunked_upload]]
    /\ UNCHANGED <<storage, now, config, on_completion_calls, delivered,
                   client>>

\* The hook runs, and returns or raises: post() has nothing that undoes the
\* save before it.
OnCompletion(p) ==
    /\ handlers[p].pc = "hook"
    /\ on_completion_calls' = on_completion_calls + 1
    /\ handlers' = [handlers EXCEPT ![p] = Idle]
    /\ UNCHANGED <<storage, records, now, config, delivered, client>>

OverlapNext ==
    \/ \E p \in Handlers :
          \/ AppendChecks(p)
          \/ AppendChunk(p)
          \/ AppendSave(p)
          \/ CompleteChecks(p)
          \/ CompleteSave(p)
          \/ OnCompletion(p)
    \/ Tick

Overlap == OverlapInit /\ [][OverlapNext]_vars

\* --------------------------------------------------------- one handler's steps
\* Stepwise follows a single handler through the same steps, one request after
\* another, with the requests of Hooked.
StepwiseAppendChecks == \E req \in HookedChunkRequests : CheckAppend(1, req)

StepwiseCompleteChecks == \E req \in HookedCompleteRequests : CheckComplete(1, req)

StepwiseNext ==
    \/ StepwiseAppendChecks
    \/ AppendChunk(1)
    \/ AppendSave(1)
    \/ StepwiseCompleteChecks
    \/ CompleteSave(1)
    \/ OnCompletion(1)
    \/ Tick

Stepwise == Init /\ [][StepwiseNext]_vars

\* ------------------------------------------------------ a resynchronising client
\* Resync follows one client that uploads its file in order, as user u1, with
\* a Content-Range header on every chunk. client.offset is the offset the
\* server last reported to it; a response may fail to reach it, at most
\* MaxLost times. Requests do not overlap, storage does not fail, and the
\* clock stops short of the session's expiry.
ClientChunk(k) ==
    [user |-> "u1", upload_id |-> client.upload_id,
     chunk |-> <<SubSeq(client.file, client.offset + 1, client.offset + k)>>,
     content_range |-> <<client.offset, client.offset + k - 1, Len(client.file)>>]

\* What the client learns from the response: upload_id and offset from a 200,
\* the offset from an 'Offsets do not match' error.
ClientReads(resp) ==
    IF resp.detail = "OK"
    THEN [client EXCEPT !.upload_id = resp.upload_id, !.offset = resp.offset]
    ELSE IF resp.detail = "OffsetMismatch"
    THEN [client EXCEPT !.offset = resp.offset]
    ELSE client

ClientSend ==
    /\ client.offset < Len(client.file)
    /\ \E k \in 1..(Len(client.file) - client.offset) :
           /\ Post(ClientChunk(k))
           /\ client' = ClientReads(ChunkedUploadView_post(ClientChunk(k)).resp)

\* The request is served and its response is lost on the way back.
ClientSendLost ==
    /\ client.upload_id # NoId
    /\ client.lost < MaxLost
    /\ client.offset < Len(client.file)
    /\ \E k \in 1..(Len(client.file) - client.offset) :
           /\ Post(ClientChunk(k))
           /\ client' = [client EXCEPT !.lost = @ + 1]

ClientComplete ==
    /\ client.upload_id # NoId
    /\ client.offset = Len(client.file)
    /\ Complete([user |-> "u1", upload_id |-> client.upload_id,
                 md5 |-> MD5(client.file)])
    /\ UNCHANGED client

ClientTick ==
    /\ Tick
    /\ \A id \in DOMAIN records : now + 1 < expires_on(records[id])

ResyncInit ==
    /\ Start
    /\ client \in [file : Payloads \ {<<>>}, upload_id : {NoId}, offset : {0},
                   lost : {0}]

ResyncNext == ClientSend \/ ClientSendLost \/ ClientComplete \/ ClientTick

Resync ==
    /\ ResyncInit
    /\ [][ResyncNext]_vars
    /\ WF_vars(ClientSend)
    /\ WF_vars(ClientComplete)

\* ---------------------------------------------------------- storage failures
\* Faults adds requests in which the storage backend fails: "write" is an
\* exception out of the write to the backing object, "save" one out of
\* Model.save() after the write went through. post() catches only
\* ChunkedUploadError, so the exception leaves the view as it is.
FaultKinds == {"write", "save"}

\* append_chunk when the write raises after `written` bytes of the chunk have
\* reached a local file. append_block adds the whole block or nothing, but by
\* then the blob has been recreated if offset is 0.
append_chunk_raises(cu, st, data, written) ==
    LET base == IF use_azure /\ cu.offset = 0 THEN <<>> ELSE st[cu.file]
        n == IF use_azure THEN 0 ELSE written
    IN  [st EXCEPT ![cu.file] = base \o SubSeq(data, 1, n)]

\* ChunkedUploadView.post for a request that passes the checks and then meets
\* the failure: the rows, the storage and the hook count it leaves.
ChunkedUploadView_post_raises(req, fault, written) ==
    LET checked == ChunkedUploadView_checks(req)
    IN  [records |-> records,
         storage |-> IF fault = "write"
                     THEN append_chunk_raises(checked.cu, checked.storage,
                                              checked.data, written)
                     ELSE append_chunk(checked.cu, checked.storage, checked.data,
                                       checked.chunk_size).storage,
         calls |-> on_completion_calls,
         raised |-> IF fault = "write" THEN "IOError" ELSE "DatabaseError"]

\* The failures request req can meet: a write stops short of the whole chunk.
FaultsOf(req) ==
    IF ChunkedUploadView_checks(req).detail # "OK" THEN {}
    ELSE {<<"save", 0>>}
         \cup {<<"write", n>> : n \in 0..(Len(req.chunk[1]) - 1)}

PostChunkRaises ==
    \E req \in ChunkRequests :
        \E f \in FaultsOf(req) :
            /\ Apply(ChunkedUploadView_post_raises(req, f[1], f[2]))
            /\ UNCHANGED <<delivered, client>>

FaultsNext == PostChunkRaises \/ PostChunk \/ PostComplete \/ Tick

Faults == Init /\ [][FaultsNext]_vars

\* ---------------------------------------------------------------- properties
\* The session an append or completion request reaches: the request passes
\* check_permissions and its upload_id is found in its queryset.
Reaches(req, id) ==
    /\ check_permissions(req.user)
    /\ req.upload_id = id
    /\ id \in get_queryset(req.user)

Unchanged(out) ==
    /\ out.records = records
    /\ out.storage = storage
    /\ out.calls = on_completion_calls

\* C1: between requests, each session's persisted offset equals the byte
\* length of its backing object.
C1_OffsetIsLength ==
    \A id \in DOMAIN records :
        records[id].offset = Len(storage[records[id].file])

\* C1's case: a session whose object holds two delivered bytes.
C1_Witness ==
    \E id \in DOMAIN records :
        /\ records[id].offset = 2
        /\ Len(storage[records[id].file]) = 2
        /\ delivered[id] \in {<<0, 1>>, <<1, 0>>}

\* An append request addressed to session id: it carries a chunk and reaches id.
AppendTo(req, id) == Reaches(req, id) /\ req.chunk # <<>>

Live(cu) == now < cu.created_on + EXPIRATION_DELTA

WithinLimit(total) == max_bytes = None \/ total <= max_bytes

\* The append requests of C2: a declared start that differs from the offset.
C2_Case(req, id) ==
    /\ AppendTo(req, id)
    /\ req.content_range # <<>>
    /\ req.content_range[1] # records[id].offset

C2_Rejected(req, id) ==
    LET out == ChunkedUploadView_post(req)
    IN  /\ out.resp.detail = "OffsetMismatch"
        /\ out.resp.status = 400
        /\ out.resp.offset = records[id].offset
        /\ Unchanged(out)

\* C2 as stated: every append request whose declared start differs from the
\* session's offset fails with OffsetMismatch, changes nothing and reports the
\* persisted offset.
C2_Original ==
    \A id \in DOMAIN records : \A req \in ChunkRequests :
        C2_Case(req, id) => C2_Rejected(req, id)

\* C2 amended: such a request always fails and changes nothing; it fails with
\* OffsetMismatch, reporting the persisted offset, when the session is neither
\* expired nor Complete and the declared total is within max_bytes.
C2_OffsetMismatch ==
    \A id \in DOMAIN records : \A req \in ChunkRequests :
        C2_Case(req, id) =>
            LET out == ChunkedUploadView_post(req)
            IN  /\ out.resp.status # 200
                /\ Unchanged(out)
                /\ (Live(records[id]) /\ records[id].status # COMPLETE
                       /\ WithinLimit(req.content_range[3]))
                      => C2_Rejected(req, id)

\* C2's case: the first byte re-sent to a session whose offset is 1 is refused
\* with the offset 1 reported.
C2_Witness ==
    \E id \in DOMAIN records : \E req \in ChunkRequests :
        /\ C2_Case(req, id)
        /\ records[id].offset = 1
        /\ req.content_range = <<0, 0, 1>> /\ Len(req.chunk[1]) = 1
        /\ C2_Rejected(req, id)

\* C3 as stated: an append request addressed to a Complete session always
\* fails with AlreadyComplete and changes nothing.
C3_Original ==
    \A id \in DOMAIN records : \A req \in ChunkRequests :
        (AppendTo(req, id) /\ records[id].status = COMPLETE) =>
            LET out == ChunkedUploadView_post(req)
            IN  out.resp.detail = "AlreadyComplete" /\ Unchanged(out)

\* C3 amended: an append request addressed to a Complete session always fails
\* and changes nothing; it fails with AlreadyComplete when the session has not
\* expired, and with Expired when it has.
C3_CompleteRefusesAppends ==
    \A id \in DOMAIN records : \A req \in ChunkRequests :
        (AppendTo(req, id) /\ records[id].status = COMPLETE) =>
            LET out == ChunkedUploadView_post(req)
            IN  /\ out.resp.status # 200
                /\ Unchanged(out)
                /\ out.resp.detail =
                      IF Live(records[id]) THEN "AlreadyComplete" ELSE "Expired"

\* C3's case: a well-formed next chunk for a Complete, unexpired session is
\* refused with AlreadyComplete.
C3_Witness ==
    \E id \in DOMAIN records : \E req \in ChunkRequests :
        /\ AppendTo(req, id)
        /\ records[id].status = COMPLETE /\ Live(records[id])
        /\ records[id].offset = 1
        /\ req.content_range = <<1, 1, 2>> /\ Len(req.chunk[1]) = 1
        /\ max_bytes = None
        /\ ChunkedUploadView_post(req).resp.detail = "AlreadyComplete"

\* ---- completion
\* C4 as stated: a completion request succeeds (the session becomes Complete
\* with completed_on set) if and only if the session exists for the requester,
\* the checksum matches or verification is off, and the session was neither
\* Complete nor expired; a completion request on an expired session is refused.
C4_CompletionIff ==
    \A req \in CompleteRequests :
        LET out == ChunkedUploadCompleteView_post(req)
            id == req.upload_id
            succeeds == /\ out.resp.status = 200
                        /\ id \in DOMAIN out.records
                        /\ out.records[id].status = COMPLETE
                        /\ out.records[id].completed_on = now
            allowed == /\ Reaches(req, id)
                       /\ ~do_md5_check \/ req.md5 = MD5(storage[records[id].file])
                       /\ records[id].status # COMPLETE
                       /\ Live(records[id])
        IN  succeeds <=> allowed

\* The part of C4 the code keeps: the same equivalence without the expiry
\* condition.
C4_CompletionIffIgnoringExpiry ==
    \A req \in CompleteRequests :
        LET out == ChunkedUploadCompleteView_post(req)
            id == req.upload_id
            succeeds == /\ out.resp.status = 200
                        /\ id \in DOMAIN out.records
                        /\ out.records[id].status = COMPLETE
                        /\ out.records[id].completed_on = now
            allowed == /\ Reaches(req, id)
                       /\ ~do_md5_check \/ req.md5 = MD5(storage[records[id].file])
                       /\ records[id].status # COMPLETE
        IN  succeeds <=> allowed

\* C5: with verification on, a completion request for an Uploading session
\* whose supplied checksum differs from the hash of the whole object fails
\* with ChecksumMismatch; the row, the object and the hook count are untouched.
C5_ChecksumMismatch ==
    \A id \in DOMAIN records : \A req \in CompleteRequests :
        ( /\ Reaches(req, id)
          /\ do_md5_check
          /\ req.md5 # None
          /\ records[id].status = UPLOADING
          /\ req.md5 # MD5(storage[records[id].file]) ) =>
            LET out == ChunkedUploadCompleteView_post(req)
            IN  /\ out.resp.detail = "ChecksumMismatch"
                /\ out.resp.status = 400
                /\ out.records = records
                /\ out.records[id].status = UPLOADING
                /\ out.records[id].completed_on = None
                /\ out.storage = storage
                /\ out.calls = on_completion_calls

\* C5's case: a wrong checksum for a two-byte upload is refused.
C5_Witness ==
    \E id \in DOMAIN records : \E req \in CompleteRequests :
        /\ Reaches(req, id)
        /\ do_md5_check
        /\ records[id].status = UPLOADING /\ records[id].completed_on = None
        /\ storage[records[id].file] = <<1, 0>>
        /\ req.md5 \in Digests /\ req.md5 # MD5(<<1, 0>>)
        /\ on_completion_calls = 0
        /\ ChunkedUploadCompleteView_post(req).resp.detail = "ChecksumMismatch"

\* ---- in-order delivery
\* The next chunk of an in-order delivery: a range header whose start is 0 on
\* a new upload, or the end of the bytes delivered so far plus one on session
\* id, and whose length is the payload's.
C6_InOrder(req, id) ==
    /\ check_permissions(req.user)
    /\ req.chunk # <<>>
    /\ req.content_range # <<>>
    /\ req.upload_id = id
    /\ \/ id = NoId /\ req.content_range[1] = 0
       \/ Reaches(req, id) /\ req.content_range[1] = Len(delivered[id])
    /\ req.content_range[2] = req.content_range[1] + Len(req.chunk[1]) - 1

\* The chunk is accepted; the session's offset and object are the bytes
\* delivered before it followed by the chunk's.
C6_Accepted(req, id) ==
    LET out == ChunkedUploadView_post(req)
        before == IF id = NoId THEN <<>> ELSE delivered[id]
        sid == out.resp.upload_id
    IN  /\ out.resp.status = 200
        /\ sid \in DOMAIN out.records
        /\ id # NoId => sid = id
        /\ out.resp.offset = Len(before) + Len(req.chunk[1])
        /\ out.records[sid].offset = Len(before) + Len(req.chunk[1])
        /\ out.storage[out.records[sid].file] = before \o req.chunk[1]

\* After any number of accepted chunks the offset is the sum of their lengths
\* and the object is their concatenation in delivery order.
C6_Assembled ==
    /\ DOMAIN delivered = DOMAIN records
    /\ \A id \in DOMAIN records :
           /\ records[id].offset = Len(delivered[id])
           /\ storage[records[id].file] = delivered[id]

\* C6 as stated: every chunk of an in-order delivery with matching lengths is
\* accepted, and the object is the concatenation of the chunks.
C6_Original ==
    /\ C6_Assembled
    /\ \A id \in UploadIds : \A req \in ChunkRequests :
           C6_InOrder(req, id) => C6_Accepted(req, id)

\* C6 amended: every chunk of an in-order delivery with matching lengths is
\* accepted provided its declared total is within max_bytes and the session
\* is neither expired nor Complete when it arrives; the offset is then the
\* sum of the chunk lengths and the object their concatenation.
C6_InOrderDelivery ==
    /\ C6_Assembled
    /\ \A id \in UploadIds : \A req \in ChunkRequests :
           ( /\ C6_InOrder(req, id)
             /\ WithinLimit(req.content_range[3])
             /\ id # NoId => (Live(records[id]) /\ records[id].status # COMPLETE) )
           => C6_Accepted(req, id)

\* C6's case: two one-byte chunks delivered in order, 0 then 1.
C6_Witness ==
    \E id \in DOMAIN records : \E req \in ChunkRequests :
        /\ storage[records[id].file] = <<0>>
        /\ records[id].offset = 1
        /\ C6_InOrder(req, id)
        /\ req.chunk = << <<1>> >>
        /\ req.content_range = <<1, 1, 2>>
        /\ C6_Accepted(req, id)
        /\ ChunkedUploadView_post(req).storage[records[id].file] = <<0, 1>>

\* ---- size limit
\* C7 as stated: when max_bytes is set, no session's offset and no backing
\* object's length exceeds it.
C7_MaxBytesBoundsData ==
    max_bytes # None =>
        \A id \in DOMAIN records :
            /\ records[id].offset <= max_bytes
            /\ Len(storage[records[id].file]) <= max_bytes

\* ---- expiration
C8_Expired(cu) == now >= cu.created_on + EXPIRATION_DELTA

\* A session is expired exactly from the boundary instant on.
C8_ExpiredIff ==
    \A id \in DOMAIN records : expired(records[id]) <=> C8_Expired(records[id])

\* An append request addressed to an expired session fails with Expired and
\* changes nothing.
C8_AppendRefused ==
    \A id \in DOMAIN records : \A req \in ChunkRequests :
        (AppendTo(req, id) /\ C8_Expired(records[id])) =>
            LET out == ChunkedUploadView_post(req)
            IN  /\ out.resp.detail = "Expired"
                /\ out.resp.status = 410
                /\ Unchanged(out)

\* No step changes the offset or the object of a session that has expired.
C8_Frozen ==
    \A id \in DOMAIN records :
        C8_Expired(records[id]) =>
            /\ id \in DOMAIN records'
            /\ records'[id].offset = records[id].offset
            /\ storage'[records'[id].file] = storage[records[id].file]

\* C8: a session is expired exactly when now >= created_on + EXPIRATION_DELTA;
\* every append request addressed to an expired session fails with Expired and
\* changes nothing; once a session has expired its offset never changes.
C8_Expiration == [](C8_ExpiredIff /\ C8_AppendRefused) /\ [][C8_Frozen]_vars

\* C8's case: at the boundary instant itself, the next chunk of an Uploading
\* session is refused with Expired.
C8_Witness ==
    \E id \in DOMAIN records : \E req \in ChunkRequests :
        /\ now = records[id].created_on + EXPIRATION_DELTA
        /\ records[id].status = UPLOADING
        /\ records[id].offset = 1
        /\ C6_InOrder(req, id)
        /\ WithinLimit(req.content_range[3])
        /\ Len(req.chunk[1]) = 1
        /\ ChunkedUploadView_post(req).resp.detail = "Expired"

\* ---- ownership
\* C9 as stated: a request naming a session that has an owner, sent by another
\* principal or by a request with no principal, gets NotFound and changes
\* nothing.
C9_OwnerOnly ==
    \A id \in DOMAIN records :
        records[id].user \in Users =>
            /\ \A req \in ChunkRequests :
                   ( /\ req.upload_id = id
                     /\ req.chunk # <<>>
                     /\ req.user \in (Users \ {records[id].user}) \cup {NoUser} )
                   => LET out == ChunkedUploadView_post(req)
                      IN  out.resp.detail = "NotFound" /\ Unchanged(out)
            /\ \A req \in CompleteRequests :
                   ( /\ req.upload_id = id
                     /\ req.md5 # None
                     /\ req.user \in (Users \ {records[id].user}) \cup {NoUser} )
                   => LET out == ChunkedUploadCompleteView_post(req)
                      IN  out.resp.detail = "NotFound" /\ Unchanged(out)

\* The part of C9 the code keeps: another authenticated principal gets
\* NotFound, and nothing changes.
C9_OtherUserNotFound ==
    \A id \in DOMAIN records :
        records[id].user \in Users =>
            /\ \A req \in ChunkRequests :
                   ( /\ req.upload_id = id
                     /\ req.chunk # <<>>
                     /\ req.user \in Users \ {records[id].user} )
                   => LET out == ChunkedUploadView_post(req)
                      IN  out.resp.detail = "NotFound" /\ Unchanged(out)
            /\ \A req \in CompleteRequests :
                   ( /\ req.upload_id = id
                     /\ req.md5 # None
                     /\ req.user \in Users \ {records[id].user} )
                   => LET out == ChunkedUploadCompleteView_post(req)
                      IN  out.resp.detail = "NotFound" /\ Unchanged(out)

\* ---- requests without a range header
\* An append request without a range header, for a new upload (id = NoId) or
\* addressed to session id.
C10_NoHeader(req, id) ==
    /\ check_permissions(req.user)
    /\ req.chunk # <<>>
    /\ req.content_range = <<>>
    /\ req.upload_id = id
    /\ id # NoId => Reaches(req, id)

\* What C10 says of such a request carrying n bytes.
C10_Handled(req, id) ==
    LET out == ChunkedUploadView_post(req)
        n == Len(req.chunk[1])
        offset == IF id = NoId THEN 0 ELSE records[id].offset
        sid == out.resp.upload_id
    IN  /\ fail_if_no_header =>
               out.resp.detail = "MissingRangeHeader" /\ out.records = records
        /\ (~fail_if_no_header /\ ~WithinLimit(n)) =>
               out.resp.detail = "SizeLimitExceeded" /\ out.records = records
        /\ (~fail_if_no_header /\ WithinLimit(n) /\ offset = 0) =>
               /\ out.resp.status = 200
               /\ out.resp.offset = n
               /\ sid \in DOMAIN out.records
               /\ id # NoId => sid = id
               /\ out.records[sid].offset = n
               /\ out.records[sid].status = UPLOADING
               /\ out.storage[out.records[sid].file] = req.chunk[1]
        /\ (~fail_if_no_header /\ WithinLimit(n) /\ offset > 0) =>
               /\ out.resp.detail = "OffsetMismatch"
               /\ out.resp.offset = offset
               /\ Unchanged(out)

\* C10 as stated: every append request without a range header is refused with
\* MissingRangeHeader when fail_if_no_header is set, and is otherwise treated
\* as the range 0..n-1 of n.
C10_Original ==
    \A id \in UploadIds : \A req \in ChunkRequests :
        C10_NoHeader(req, id) => C10_Handled(req, id)

\* C10 amended: the same, for a new upload or a session that is neither
\* expired nor Complete.
C10_NoRangeHeader ==
    \A id \in UploadIds : \A req \in ChunkRequests :
        ( /\ C10_NoHeader(req, id)
          /\ id # NoId => (Live(records[id]) /\ records[id].status # COMPLETE) )
        => C10_Handled(req, id)

\* C10's cases: with the header optional, a one-byte chunk without one starts
\* a new upload at offset 1, and is refused with OffsetMismatch by a session
\* whose offset is already 1.
C10_Witness ==
    /\ ~fail_if_no_header
    /\ \E id \in DOMAIN records : \E req \in ChunkRequests :
           /\ C10_NoHeader(req, id)
           /\ Len(req.chunk[1]) = 1
           /\ records[id].offset = 1
           /\ delivered[id] = req.chunk[1]
           /\ Live(records[id]) /\ records[id].status = UPLOADING
           /\ ChunkedUploadView_post(req).resp.detail = "OffsetMismatch"

\* C11: no step lowers a session's persisted offset, whether requests run one
\* after another (Spec) or overlap (Overlap).
C11_OffsetMonotonic ==
    [][\A id \in DOMAIN records :
          id \in DOMAIN records' /\ records'[id].offset >= records[id].offset]_vars

\* C12: completed_on is unset in every state where the status is Uploading, it
\* is set by the step that takes the status from Uploading to Complete, and
\* once set no later step writes another value, whether completion requests
\* run one after another (Spec) or overlap (Overlap).
C12_UnsetWhileUploading ==
    \A id \in DOMAIN records :
        records[id].status = UPLOADING => records[id].completed_on = None

C12_SetOnce ==
    \A id \in DOMAIN records :
        /\ id \in DOMAIN records'
        /\ records[id].status = UPLOADING /\ records'[id].status = COMPLETE
            => records'[id].completed_on = now
        /\ records[id].completed_on # None
            => records'[id].completed_on = records[id].completed_on

C12_CompletedOnSetOnce == []C12_UnsetWhileUploading /\ [][C12_SetOnce]_vars

\* C13: a request that meets a storage failure, in the write to the backing
\* object or in the save after it, leaves every persisted row as it was, and
\* a session whose offset equalled the length of its object before the
\* request still has an object of that length.
C13_AllOrNothing ==
    \A req \in ChunkRequests :
        \A f \in FaultsOf(req) :
            LET out == ChunkedUploadView_post_raises(req, f[1], f[2])
            IN  /\ out.records = records
                /\ \A id \in DOMAIN records :
                       records[id].offset = Len(storage[records[id].file])
                       => records[id].offset = Len(out.storage[records[id].file])

\* Handlers p and q are two appends in flight for session id that have both
\* passed the offset check against the offset still persisted and have both
\* written a chunk that is not empty; neither has saved.
C14_Racing(p, q, id) ==
    /\ p # q
    /\ id \in DOMAIN records
    /\ \A h \in {handlers[p], handlers[q]} :
           /\ h.pc = "save"
           /\ h.cu.file = records[id].file
           /\ h.cu.offset - h.chunk_size = records[id].offset
           /\ h.chunk_size > 0

\* C14: the offset check does not keep two appends for one session apart:
\* both can pass it before either saves, and with the local-file sink the
\* object then holds both chunks, so it is longer than the offset either
\* handler is about to persist.
C14_DoubleAppend ==
    \A p, q \in Handlers : \A id \in DOMAIN records :
        C14_Racing(p, q, id) /\ ~use_azure
        => /\ Len(storage[records[id].file]) > handlers[p].cu.offset
           /\ Len(storage[records[id].file]) > handlers[q].cu.offset

\* C14's case: two appends that both passed the check at offset 0 and wrote
\* one byte each.
C14_Witness ==
    \E p, q \in Handlers : \E id \in DOMAIN records :
        /\ C14_Racing(p, q, id)
        /\ records[id].offset = 0
        /\ Len(storage[records[id].file]) = 2

\* The race has run its course: both handlers are done and the object holds a
\* byte more than the persisted offset counts.
C14_Corrupted ==
    \E id \in DOMAIN records :
        /\ \A p \in Handlers : handlers[p].pc = "idle"
        /\ records[id].offset = 1
        /\ Len(storage[records[id].file]) = 2

\* The answer the order of the claim gives request req: the first of
\* MissingChunk, the validation hook, NotFound, Expired, AlreadyComplete,
\* MissingRangeHeader, SizeLimitExceeded, OffsetMismatch and SizeMismatch
\* whose condition holds, or "OK".
C15_FirstFailing(req) ==
    LET known == req.upload_id \in DOMAIN records
                 /\ records[req.upload_id].user = req.user
        cu == records[req.upload_id]
        hdr == req.content_range
        data == req.chunk[1]
        start == IF hdr = <<>> THEN 0 ELSE hdr[1]
        end == IF hdr = <<>> THEN Len(data) - 1 ELSE hdr[2]
        total == IF hdr = <<>> THEN Len(data) ELSE hdr[3]
        offset == IF req.upload_id = NoId THEN 0 ELSE cu.offset
    IN  IF req.chunk = <<>> THEN "MissingChunk"
        ELSE IF req.veto THEN "ValidationError"
        ELSE IF req.upload_id # NoId /\ ~known THEN "NotFound"
        ELSE IF req.upload_id # NoId /\ now >= cu.created_on + EXPIRATION_DELTA
        THEN "Expired"
        ELSE IF req.upload_id # NoId /\ cu.status = COMPLETE THEN "AlreadyComplete"
        ELSE IF hdr = <<>> /\ fail_if_no_header THEN "MissingRangeHeader"
        ELSE IF max_bytes # None /\ total > max_bytes THEN "SizeLimitExceeded"
        ELSE IF start # offset THEN "OffsetMismatch"
        ELSE IF Len(data) # end - start + 1 THEN "SizeMismatch"
        ELSE "OK"

\* The blob sink's append was not invoked: every object holds what it held,
\* and an object the request created is empty.
C15_NothingAppended(out) ==
    \A ref \in DOMAIN out.storage :
        out.storage[ref] = IF ref \in DOMAIN storage THEN storage[ref] ELSE <<>>

\* C15: an append request is answered by the first failing check in the order
\* MissingChunk, validation hook, NotFound, Expired, AlreadyComplete,
\* MissingRangeHeader, SizeLimitExceeded, OffsetMismatch, SizeMismatch, and a
\* rejected request appends nothing to any object and saves no row.
C15_CheckOrder ==
    \A req \in HookedChunkRequests :
        LET out == ChunkedUploadView_post(req)
        IN  /\ out.resp.detail = C15_FirstFailing(req)
            /\ out.resp.detail # "OK"
                => C15_NothingAppended(out) /\ out.records = records

\* C15's case: with max_bytes set, a request to a live session whose total is
\* over the limit and whose start is not the offset is answered
\* SizeLimitExceeded, and nothing is appended.
C15_Witness ==
    \E req \in HookedChunkRequests :
        LET out == ChunkedUploadView_post(req)
        IN  /\ req.upload_id \in DOMAIN records
            /\ max_bytes # None
            /\ req.content_range # <<>>
            /\ req.content_range[3] > max_bytes
            /\ req.content_range[1] # records[req.upload_id].offset
            /\ ~req.veto
            /\ out.resp.detail = "SizeLimitExceeded"
            /\ C15_NothingAppended(out)

\* What a whole completion request does to the hook count: one invocation when
\* it succeeds, with the row saved as Complete and completed_on set; none,
\* and no change, when it is rejected.
C16_PerRequest ==
    \A req \in HookedCompleteRequests :
        LET out == ChunkedUploadCompleteView_post(req)
        IN  IF out.resp.detail = "OK"
            THEN /\ out.calls = on_completion_calls + 1
                 /\ out.records[req.upload_id].status = COMPLETE
                 /\ out.records[req.upload_id].completed_on # None
            ELSE /\ out.resp.detail \in {"MissingParameters", "NotFound",
                                         "ValidationError", "AlreadyComplete",
                                         "ChecksumMismatch"}
                 /\ Unchanged(out)

\* The step that invokes the hook: a handler that passed the completion
\* checks invokes it once, the row it saved is Complete with completed_on
\* set, and the step changes no row, whether the hook returns or raises.
C16_HookStep ==
    on_completion_calls' # on_completion_calls =>
        /\ on_completion_calls' = on_completion_calls + 1
        /\ \E p \in Handlers :
               /\ handlers[p].pc = "hook" /\ handlers'[p].pc = "idle"
               /\ records[handlers[p].cu.file].status = COMPLETE
               /\ records[handlers[p].cu.file].completed_on # None
        /\ records' = records

\* A handler is on its way to the hook only for a session it found Uploading
\* and in its queryset, so never in a request the checks rejected.
C16_OnlyAfterChecks ==
    \A p \in Handlers :
        handlers[p].pc \in {"complete", "hook"} =>
            /\ handlers[p].cu.file \in DOMAIN records
            /\ handlers[p].cu.user = "u1"
            /\ handlers[p].pc = "hook" <=> handlers[p].cu.status = COMPLETE

\* C16: on_completion is invoked only after the session was saved as Complete
\* with completed_on set, once for each completion request that succeeds and
\* never for one that is rejected, and the hook step, whether the hook returns
\* or raises, leaves the session Complete.
C16_HookAfterCompletion ==
    [](C16_PerRequest /\ C16_OnlyAfterChecks) /\ [][C16_HookStep]_vars

\* C16's case: the hook has run once for a session that is Complete, and a
\* second completion request for it is answered AlreadyComplete.
C16_Witness ==
    /\ on_completion_calls = 1
    /\ \A p \in Handlers : handlers[p].pc = "idle"
    /\ \E req \in HookedCompleteRequests :
           /\ req.upload_id \in DOMAIN records
           /\ records[req.upload_id].status = COMPLETE
           /\ records[req.upload_id].completed_on # None
           /\ ChunkedUploadCompleteView_post(req).resp.detail = "AlreadyComplete"
           /\ ChunkedUploadCompleteView_post(req).calls = 1

\* C17: the two sinks do the same to a session: whatever state a sequence of
\* append calls, failed requests included, has left it in, the next call
\* (a retry, or a chunk of any length, zero included) leaves the same object
\* content and the same offset under either sink, and the append-blob sink
\* keeps the bytes the offset counts.
C17_SameContract ==
    \A id \in DOMAIN records : \A data \in Payloads :
        LET cu == records[id]
            local == append_chunk_under(FALSE, cu, storage, data, Len(data))
            blob == append_chunk_under(TRUE, cu, storage, data, Len(data))
        IN  /\ local.storage[cu.file] = blob.storage[cu.file]
            /\ local.cu.offset = blob.cu.offset
            /\ SubSeq(blob.storage[cu.file], 1, cu.offset)
                 = SubSeq(storage[cu.file], 1, cu.offset)

\* The client's upload is finished: its session is Complete, the offset is the
\* length of its file and the object holds the file.
C18_Done ==
    /\ client.upload_id \in DOMAIN records
    /\ records[client.upload_id].status = COMPLETE
    /\ records[client.upload_id].offset = Len(client.file)
    /\ storage[records[client.upload_id].file] = client.file

\* C18: once the client has a session, sending after every response the chunk
\* that starts at the offset last reported brings the offset to the length of
\* the file, and the completion request with the file's checksum then makes
\* the session Complete.
C18_ResyncProgress == (client.upload_id # NoId) ~> C18_Done

\* C18's case: the upload finished although a response was lost and the
\* client had to take the offset from an OffsetMismatch error.
C18_Witness == C18_Done /\ client.lost = 1 /\ Len(client.file) = 2

\* C19: once a session's persisted status is Complete, no step of any request,
\* overlapping ones included, changes its status, its offset or the content
\* of its backing object.
C19_CompleteIsTerminal ==
    [][\A id \in DOMAIN records :
          records[id].status = COMPLETE
          => /\ id \in DOMAIN records'
             /\ records'[id].status = COMPLETE
             /\ records'[id].offset = records[id].offset
             /\ storage'[records[id].file] = storage[records[id].file]]_vars

\* C20: a request without upload_id that is rejected for MissingRangeHeader,
\* SizeLimitExceeded, OffsetMismatch or SizeMismatch saves no row and leaves no
\* object in storage, and every object in storage is the file of exactly one
\* persisted row.
C20_NoTrace ==
    /\ \A req \in ChunkRequests :
           LET out == ChunkedUploadView_post(req)
           IN  (req.upload_id = NoId
                /\ out.resp.detail \in {"MissingRangeHeader", "SizeLimitExceeded",
                                        "OffsetMismatch", "SizeMismatch"})
               => out.records = records /\ out.storage = storage
    /\ \A ref \in DOMAIN storage :
           Cardinality({id \in DOMAIN records : records[id].file = ref}) = 1

====
